---- MODULE Spec2Model ----
(***************************************************************************)
(* A model of src/finalcontrol.py: class DroneController.                  *)
(*                                                                         *)
(* Two threads share the controller object: the daemon thread running      *)
(* _command_worker (the dispatch loop) and the foreground thread that      *)
(* main() runs and that calls the public operations.  Neither takes a      *)
(* lock, so every store into current_cmd and every load from it is a step  *)
(* of its own that the other thread may interleave with.                   *)
(*                                                                         *)
(* Positions of the two threads are named after the source line they are   *)
(* about to execute (takeoff119 = line 119 of takeoff).                    *)
(***************************************************************************)
EXTENDS Integers, Sequences, FiniteSets, TLC

(***************************************************************************)
(* Program constants.                                                      *)
(***************************************************************************)
Header == 102
Footer == 153
Neutral == 128
Low == 64
High == 192
ByteMax == 255
Step == 3

\* A mutation of EmergencyRepeats: the sequence is repeated twice.
EmergencyRepeatsShort == 3 - 1

EmergencyRepeats == 3
StopRepeats == 5
ArmRepeats == 10

(***************************************************************************)
(* Bounds of the model.                                                    *)
(***************************************************************************)
MaxQueue == 1
MaxBurst == 2
MaxKeys == 1

Fields == <<"throttle", "yaw", "pitch", "roll", "aux">>
FieldNames == {"throttle", "yaw", "pitch", "roll", "aux"}

\* Arguments a caller of set_controls may pass for one field.
ArgValues == {-5, 100, 999}

\* Argument lists of the set_controls calls of the API client: every single
\* field with every value, and one call with two fields.
ArgChoices ==
    UNION { {[throttle |-> x], [yaw |-> x], [pitch |-> x], [roll |-> x], [aux |-> x]} :
            x \in ArgValues }
    \cup {[throttle |-> -5, aux |-> 999]}

Min2(a, b) == IF a <= b THEN a ELSE b
Max2(a, b) == IF a >= b THEN a ELSE b

\* A mutation of Clamp: the lower bound is forgotten.
ClampUpperOnly(x) == Min2(ByteMax, x)

\* A mutation of Clamp: the upper bound is forgotten.
ClampLowerOnly(x) == Max2(0, x)

\* max(0, min(255, x))
Clamp(x) == Max2(0, Min2(ByteMax, x))

\* Python objects that travel through the queue and into sendto: a str or a
\* bytes object, with its characters or bytes.
Bytes(seq) == [type |-> "bytes", data |-> seq]
Str(seq) == [type |-> "str", data |-> seq]
NoCommand == [type |-> "none", data |-> <<>>]

\* 'KEEP_ALIVE'
KEEP_ALIVE == Str(<<75, 69, 69, 80, 95, 65, 76, 73, 86, 69>>)

\* A raw packet a caller may put on the queue.
RawPacket == Bytes(<<Header, Neutral, Neutral, Neutral, Neutral, 1, Footer>>)

QueueEntries == {RawPacket, KEEP_ALIVE}

\* Another raw packet, and the entries of a caller who puts several in a row.
OtherPacket == Bytes(<<Header, Low, Neutral, Neutral, Neutral, 2, Footer>>)

BurstEntries == {RawPacket, OtherPacket, KEEP_ALIVE}

\* A mutation of Get: the queue is a LifoQueue.
GetLifo(q) == [entry |-> q[Len(q)], rest |-> SubSeq(q, 1, Len(q) - 1)]

\* Queue.get on a queue that is not empty: the oldest entry is taken.
Get(q) == [entry |-> Head(q), rest |-> Tail(q)]

InitialCmd ==
    [throttle |-> Neutral, yaw |-> Neutral, pitch |-> Neutral, roll |-> Neutral, aux |-> 0]

\* A mutation of PacketList: throttle and aux change places.
PacketListSwapped(snap) == <<Header, snap[5], snap[2], snap[3], snap[4], snap[1], Footer>>

\* The list handed to bytes() by _send_current_command, from the five values
\* loaded in source order.
PacketList(snap) == <<Header, snap[1], snap[2], snap[3], snap[4], snap[5], Footer>>

\* bytes(list) raises ValueError unless every element is in range(256).
BytesAccepts(list) == \A n \in 1..Len(list) : list[n] \in 0..ByteMax

\* A mutation of SendOutcomes: sendto takes a str as it takes bytes.
SendOutcomesAnyType(command_data, open) ==
    IF ~open THEN {"OSError"} ELSE {"sent", "OSError"}

\* What _send_command_direct can do with command_data: sendto raises
\* TypeError for a str, OSError on a closed socket, and otherwise sends the
\* datagram ("sent", and True is returned) or raises OSError as the network
\* decides; every exception is caught, printed, and False is returned.  With
\* self.debug set, line 65 prints bytes and raises ValueError for a str,
\* inside the same try: the outcomes are the same, so debug is not a variable.
SendOutcomes(command_data, open) ==
    IF command_data.type # "bytes" THEN {"TypeError"}
    ELSE IF ~open THEN {"OSError"}
    ELSE {"sent", "OSError"}

\* The next field at or after position pos that args supplies (6: none).
NextSupplied(args, pos) ==
    IF \E n \in pos..5 : Fields[n] \in DOMAIN args
    THEN CHOOSE n \in pos..5 :
            /\ Fields[n] \in DOMAIN args
            /\ \A m \in pos..(n - 1) : Fields[m] \notin DOMAIN args
    ELSE 6

VARIABLES
    current_cmd,        \* self.current_cmd
    keep_alive_active,  \* self.keep_alive_active
    running,            \* self.running
    command_queue,      \* self.command_queue
    sock_open,          \* self.sock is not closed
    wpc,                \* position of the worker thread
    command,            \* worker: the entry popped, or the packet built
    wsnap,              \* worker: the fields loaded so far by _send_current_command
    wret,               \* worker: how its send of this iteration ended
    wheld,              \* history: the values current_cmd held since the first load
                        \* that agree with wsnap
    wstop,              \* history: self.running was clear when the pop of this
                        \* iteration returned
    wpop,               \* history: how the pop of this iteration ended
    wtx,                \* history: the calls of sendto of this iteration
    wafter,             \* history: calls of sendto by the worker since
                        \* self.running was cleared
    pending,            \* history: the raw packets put on the queue and not yet
                        \* handed to sendto by the worker, in the order of the puts
    in_order,           \* history: every raw packet the worker handed to sendto
                        \* was the oldest one pending
    pc,                 \* position of the foreground thread
    in_args,            \* the argument list the API client passes to set_controls
    pilot_keys,         \* the keys the pilot of manual_control presses
    sc_pos,             \* set_controls: the next field to look at
    rep, pat, k,        \* loop counters of emergency_stop and manual_control
    keys,               \* key presses read by manual_control so far
    result,             \* the value the last operation returned
    tx,                 \* history: sends issued by the emergency_stop in progress
    clast,              \* the last send of the foreground thread: packet and outcome
    close_returned      \* history: close() has returned

wvars == <<wpc, command, wsnap, wret, wheld>>
whist == <<wstop, wpop, wtx, wafter, in_order>>
cvars == <<pc, sc_pos, rep, pat, k, keys, result, tx, clast, close_returned>>
vars == <<current_cmd, keep_alive_active, running, command_queue, sock_open,
          wpc, command, wsnap, wret, wheld, wstop, wpop, wtx, wafter, pending, in_order,
          pc, in_args, pilot_keys, sc_pos, rep, pat, k, keys, result, tx, clast,
          close_returned>>

NoSend == [pkt |-> <<>>, ret |-> "none"]

\* lines 208-233: the keys that move an axis
Keys == {"w", "s", "a", "d", "i", "k", "j", "l"}

InitCommon ==
    /\ current_cmd = InitialCmd
    /\ keep_alive_active = FALSE
    /\ running = TRUE
    /\ command_queue = <<>>
    /\ sock_open = TRUE
    /\ wpc = "while"
    /\ command = NoCommand
    /\ wsnap = <<>>
    /\ wret = "none"
    /\ wheld = {}
    /\ wstop = FALSE
    /\ wpop = "none"
    /\ wtx = <<>>
    /\ wafter = 0
    /\ pending = <<>>
    /\ in_order = TRUE
    /\ pc = "idle"
    /\ in_args \in ArgChoices
    /\ sc_pos = 1
    /\ rep = 0
    /\ pat = 1
    /\ k = 0
    /\ keys = 0
    /\ result = "unset"
    /\ tx = 0
    /\ clast = NoSend
    /\ close_returned = FALSE

\* The state after __init__, with a pilot who may press every key.
Init == InitCommon /\ pilot_keys = Keys

(***************************************************************************)
(* The worker thread: _command_worker.                                     *)
(***************************************************************************)

\* A mutation of LoopTest: the loop goes on until the queue is drained.
LoopTestDrain == running \/ command_queue # <<>>

\* line 44: the test of the while
LoopTest == running

\* line 44: while self.running
WorkerWhile ==
    /\ wpc = "while"
    /\ wpc' = IF LoopTest THEN "get" ELSE "done"
    /\ wpop' = "none"
    /\ UNCHANGED <<current_cmd, keep_alive_active, running, command_queue, sock_open,
                   command, wsnap, wret, wheld, in_args, pilot_keys,
                   wstop, wtx, wafter, pending, in_order>>
    /\ UNCHANGED cvars

\* line 48: get(timeout=0.1) returns the oldest entry
WorkerGet ==
    /\ wpc = "get"
    /\ command_queue # <<>>
    /\ command' = Get(command_queue).entry
    /\ command_queue' = Get(command_queue).rest
    /\ wpc' = "check49"
    /\ wstop' = ~running
    /\ wpop' = "entry"
    /\ UNCHANGED <<current_cmd, keep_alive_active, running, sock_open,
                   wsnap, wret, wheld, in_args, pilot_keys,
                   wtx, wafter, pending, in_order>>
    /\ UNCHANGED cvars

\* A mutation of OnEmpty: the handler of Empty does nothing.
OnEmptyPass == "sleep"

\* lines 52-54: the handler of Empty calls _send_current_command
OnEmpty == "snap"

\* line 48 and 52: get(timeout=0.1) raises Empty; line 54 calls
\* _send_current_command
WorkerGetEmpty ==
    /\ wpc = "get"
    /\ command_queue = <<>>
    /\ wpc' = OnEmpty
    /\ wstop' = ~running
    /\ wpop' = "empty"
    /\ UNCHANGED <<current_cmd, keep_alive_active, running, command_queue, sock_open,
                   command, wsnap, wret, wheld, in_args, pilot_keys,
                   wtx, wafter, pending, in_order>>
    /\ UNCHANGED cvars

\* A mutation of SkipMarker: the marker is skipped while keep-alive is active.
SkipMarkerInverted(cmd, active) == cmd = KEEP_ALIVE /\ active

\* line 49: command == 'KEEP_ALIVE' and not self.keep_alive_active
SkipMarker(cmd, active) == cmd = KEEP_ALIVE /\ ~active

\* lines 49-51: continue, or go on to _send_command_direct(command)
WorkerCheck ==
    /\ wpc = "check49"
    /\ IF SkipMarker(command, keep_alive_active)
       THEN /\ wpc' = "while"
            /\ command' = NoCommand
            /\ wstop' = FALSE
            /\ wpop' = "skipped"
       ELSE /\ wpc' = "send"
            /\ command' = command
            /\ wstop' = wstop
            /\ wpop' = wpop
    /\ UNCHANGED <<current_cmd, keep_alive_active, running, command_queue, sock_open,
                   wsnap, wret, wheld, in_args, pilot_keys,
                   wtx, wafter, pending, in_order>>
    /\ UNCHANGED cvars

\* Whether cmd has, field by field, the values loaded so far.
Agrees(cmd, snap) == \A n \in 1..Len(snap) : cmd[Fields[n]] = snap[n]

\* lines 74-82: one load of self.current_cmd[field]; after the fifth, bytes()
\* builds the packet (or raises ValueError, which line 56 catches)
WorkerLoad ==
    /\ wpc = "snap"
    /\ LET snap == Append(wsnap, current_cmd[Fields[Len(wsnap) + 1]])
       IN  /\ wsnap' = snap
           /\ wheld' = {c \in wheld \cup {current_cmd} : Agrees(c, snap)}
           /\ IF Len(snap) < 5
              THEN /\ wpc' = "snap"
                   /\ command' = command
              ELSE IF BytesAccepts(PacketList(snap))
              THEN /\ wpc' = "send"
                   /\ command' = Bytes(PacketList(snap))
              ELSE /\ wpc' = "except"
                   /\ command' = command
    /\ UNCHANGED <<current_cmd, keep_alive_active, running, command_queue, sock_open,
                   wret, in_args, pilot_keys,
                   wstop, wpop, wtx, wafter, pending, in_order>>
    /\ UNCHANGED cvars

\* Line 51 is about to hand a raw packet taken from the queue to
\* _send_command_direct.
DirectRaw == wpc = "send" /\ wsnap = <<>> /\ command.type = "bytes"

\* A mutation of AfterSend: a failed send ends the loop.
AfterSendStopOnError(ret) == IF ret = "sent" THEN "sleep" ELSE "done"

\* lines 51 and 83: the value _send_command_direct returns is not looked at,
\* and the iteration goes on to its sleep
AfterSend(ret) == "sleep"

\* lines 60-70: _send_command_direct, called from line 51 or line 83
WorkerSend ==
    /\ wpc = "send"
    /\ wret' \in SendOutcomes(command, sock_open)
    /\ wpc' = AfterSend(wret')
    /\ wtx' = Append(wtx, IF wsnap = <<>> THEN "direct" ELSE "snapshot")
    /\ wafter' = IF running THEN wafter ELSE wafter + 1
    /\ IF DirectRaw
       THEN /\ in_order' = (in_order /\ pending # <<>> /\ Head(pending) = command)
            /\ pending' = IF pending # <<>> THEN Tail(pending) ELSE pending
       ELSE UNCHANGED <<pending, in_order>>
    /\ UNCHANGED <<current_cmd, keep_alive_active, running, command_queue, sock_open,
                   command, wsnap, wheld, in_args, pilot_keys, wstop, wpop>>
    /\ UNCHANGED cvars

\* line 55: time.sleep(0.05), the end of the iteration
WorkerSleep ==
    /\ wpc = "sleep"
    /\ wpc' = "while"
    /\ command' = NoCommand
    /\ wsnap' = <<>>
    /\ wret' = "none"
    /\ wheld' = {}
    /\ wstop' = FALSE
    /\ wpop' = "none"
    /\ wtx' = <<>>
    /\ UNCHANGED <<current_cmd, keep_alive_active, running, command_queue, sock_open,
                   in_args, pilot_keys, wafter, pending, in_order>>
    /\ UNCHANGED cvars

\* lines 56-57: an exception raised while _send_current_command builds the
\* packet (lines 74-82 run inside no other try) reaches the outer handler
WorkerRaise ==
    /\ wpc = "snap"
    /\ wpc' = "except"
    /\ UNCHANGED <<current_cmd, keep_alive_active, running, command_queue, sock_open,
                   command, wsnap, wret, wheld, in_args, pilot_keys,
                   wstop, wpop, wtx, wafter, pending, in_order>>
    /\ UNCHANGED cvars

\* A mutation of AfterExcept: the handler ends the thread.
AfterExceptExit == "done"

\* A mutation of AfterExcept: the handler tries the snapshot again.
AfterExceptRetry == "snap"

\* Where the outer handler leaves the loop: back at its head.
AfterExcept == "while"

\* lines 57-58: print, time.sleep(1), and the loop goes on
WorkerExcept ==
    /\ wpc = "except"
    /\ wpc' = AfterExcept
    /\ command' = NoCommand
    /\ wsnap' = <<>>
    /\ wret' = "none"
    /\ wheld' = {}
    /\ wstop' = FALSE
    /\ wpop' = "none"
    /\ wtx' = <<>>
    /\ UNCHANGED <<current_cmd, keep_alive_active, running, command_queue, sock_open,
                   in_args, pilot_keys, wafter, pending, in_order>>
    /\ UNCHANGED cvars

Worker ==
    \/ WorkerWhile
    \/ WorkerGet
    \/ WorkerGetEmpty
    \/ WorkerCheck
    \/ WorkerLoad
    \/ WorkerSend
    \/ WorkerSleep
    \/ WorkerRaise
    \/ WorkerExcept

\* The steps of the worker when nothing in lines 74-82 raises, as is the case
\* while the five fields are integers in 0..255.
WorkerSteps ==
    \/ WorkerWhile
    \/ WorkerGet
    \/ WorkerGetEmpty
    \/ WorkerCheck
    \/ WorkerLoad
    \/ WorkerSend
    \/ WorkerSleep

(***************************************************************************)
(* The foreground thread: the public operations.                           *)
(***************************************************************************)

\* The history of the worker's snapshot after a store: the values current_cmd
\* has held since the first load that have every value loaded so far.
Held(cmd) ==
    IF wpc = "snap" /\ wsnap # <<>> /\ Agrees(cmd, wsnap) THEN wheld \cup {cmd} ELSE wheld

\* A mutation of Patterns: the third pattern is a copy of the first.
PatternsCopied ==
    << [throttle |-> Low, yaw |-> Neutral, pitch |-> Neutral, roll |-> Neutral, aux |-> 4],
       [throttle |-> Low, yaw |-> Neutral, pitch |-> Neutral, roll |-> Neutral, aux |-> 0],
       [throttle |-> Low, yaw |-> Neutral, pitch |-> Neutral, roll |-> Neutral, aux |-> 4],
       [throttle |-> Low, yaw |-> Neutral, pitch |-> Neutral, roll |-> Neutral, aux |-> 16] >>

\* lines 137-142
Patterns ==
    << [throttle |-> Low, yaw |-> Neutral, pitch |-> Neutral, roll |-> Neutral, aux |-> 4],
       [throttle |-> Low, yaw |-> Neutral, pitch |-> Neutral, roll |-> Neutral, aux |-> 0],
       [throttle |-> Low, yaw |-> Neutral, pitch |-> Neutral, roll |-> Neutral, aux |-> 8],
       [throttle |-> Low, yaw |-> Neutral, pitch |-> Neutral, roll |-> Neutral, aux |-> 16] >>

\* line 118
TakeoffArgs ==
    [throttle |-> Neutral, yaw |-> Neutral, pitch |-> Neutral, roll |-> Neutral, aux |-> 1]

\* A mutation of TakeoffResetArgs: the arm marker is written again.
TakeoffResetArgsArm == [aux |-> 1]

\* line 121
TakeoffResetArgs == [aux |-> 0]

\* line 127
LandArgs ==
    [throttle |-> Low, yaw |-> Neutral, pitch |-> Neutral, roll |-> Neutral, aux |-> 2]

\* A mutation of LandRestoreArgs: only aux is restored.
LandRestoreArgsAuxOnly == [aux |-> 0]

\* line 130
LandRestoreArgs == [throttle |-> Neutral, aux |-> 0]

\* lines 153 and 246
StopArgs ==
    [throttle |-> Low, yaw |-> Neutral, pitch |-> Neutral, roll |-> Neutral, aux |-> 0]

\* line 182
ArmArgs ==
    [throttle |-> Low, yaw |-> Neutral, pitch |-> Neutral, roll |-> Neutral, aux |-> 1]

\* line 188
ArmResetArgs == [aux |-> 0]

\* The call sites of set_controls, and the arguments each passes.
SetSites ==
    {"set_controls", "takeoff118", "takeoff121", "land127", "land130",
     "es148", "es153", "mc182", "mc188", "mc246"}

CallArgs ==
    CASE pc = "set_controls" -> in_args
      [] pc = "takeoff118" -> TakeoffArgs
      [] pc = "takeoff121" -> TakeoffResetArgs
      [] pc = "land127" -> LandArgs
      [] pc = "land130" -> LandRestoreArgs
      [] pc = "es148" -> Patterns[pat]
      [] pc = "es153" -> StopArgs
      [] pc = "mc182" -> ArmArgs
      [] pc = "mc188" -> ArmResetArgs
      [] pc = "mc246" -> StopArgs

\* Where each call of set_controls returns to.
AfterSet ==
    CASE pc = "set_controls" -> "idle"
      [] pc = "takeoff118" -> "takeoff119"
      [] pc = "takeoff121" -> "takeoff122"
      [] pc = "land127" -> "land128"
      [] pc = "land130" -> "land131"
      [] pc = "es148" -> "es149"
      [] pc = "es153" -> "es155"
      [] pc = "mc182" -> "mc184"
      [] pc = "mc188" -> "mc189"
      [] pc = "mc246" -> "mc248"

\* The call sites of _send_current_command in the foreground thread.
SendSites == {"es149", "es155", "mc184", "mc198", "mc248"}

\* A mutation of StoredField: each branch stores into the field of the next.
StoredFieldNext(n) == Fields[(n % 5) + 1]

\* lines 104-113: the key of current_cmd that the branch of the n-th
\* argument stores into
StoredField(n) == Fields[n]

\* lines 104-113: the next supplied field is clamped and stored; after the
\* last one set_controls returns
SetControlsStore ==
    /\ pc \in SetSites
    /\ LET n == NextSupplied(CallArgs, sc_pos)
           f == Fields[n]
       IN  /\ n <= 5
           /\ current_cmd' = [current_cmd EXCEPT ![StoredField(n)] = Clamp(CallArgs[f])]
           /\ wheld' = Held(current_cmd')
           /\ IF NextSupplied(CallArgs, n + 1) <= 5
              THEN /\ sc_pos' = n + 1
                   /\ pc' = pc
                   /\ result' = result
              ELSE /\ sc_pos' = 1
                   /\ pc' = AfterSet
                   /\ result' = IF pc = "set_controls" THEN "None" ELSE result
    /\ clast' = NoSend
    /\ UNCHANGED <<keep_alive_active, running, command_queue, pending, sock_open,
                   wpc, command, wsnap, wret, in_args, pilot_keys, whist,
                   rep, pat, k, keys, tx, close_returned>>

\* A call of an operation by the client: nothing has run yet.
Call(site) ==
    /\ pc = "idle"
    /\ pc' = site
    /\ result' = "unset"
    /\ clast' = NoSend
    /\ UNCHANGED <<current_cmd, keep_alive_active, running, command_queue, pending, sock_open,
                   wpc, command, wsnap, wret, wheld, in_args, pilot_keys, whist,
                   sc_pos, rep, pat, k, keys, tx, close_returned>>

\* A step of the foreground thread from from_pc to to_pc that changes
\* nothing else of the thread.
Goto(from_pc, to_pc) ==
    /\ pc = from_pc
    /\ pc' = to_pc
    /\ clast' = NoSend
    /\ UNCHANGED <<in_args, pilot_keys, whist,
                   sc_pos, rep, pat, k, keys, tx, close_returned>>

\* An operation returns value.
Return(from_pc, value) ==
    /\ pc = from_pc
    /\ pc' = "idle"
    /\ result' = value
    /\ clast' = NoSend
    /\ tx' = 0
    /\ UNCHANGED <<current_cmd, keep_alive_active, running, command_queue, pending, sock_open,
                   wpc, command, wsnap, wret, wheld, in_args, pilot_keys, whist,
                   sc_pos, rep, pat, k, keys, close_returned>>

\* lines 74-83 in the foreground thread, which alone stores into current_cmd:
\* the five loads see current_cmd as it is, and the packet is sent
SendCurrent ==
    LET list == PacketList(<<current_cmd.throttle, current_cmd.yaw, current_cmd.pitch,
                             current_cmd.roll, current_cmd.aux>>)
    IN  /\ BytesAccepts(list)
        /\ \E out \in SendOutcomes(Bytes(list), sock_open) :
              clast' = [pkt |-> list, ret |-> out]

\* set_controls(...) called by the client with its argument list
ApiSetControls == Call("set_controls")

\* lines 85-88, called by the client
ApiStartKeepAlive ==
    /\ pc = "idle"
    /\ keep_alive_active' = TRUE
    /\ result' = "None"
    /\ UNCHANGED <<current_cmd, running, command_queue, pending, sock_open,
                   wpc, command, wsnap, wret, wheld, in_args, pilot_keys, whist,
                   pc, sc_pos, rep, pat, k, keys, tx, clast, close_returned>>

\* lines 90-93, called by the client
ApiStopKeepAlive ==
    /\ pc = "idle"
    /\ keep_alive_active' = FALSE
    /\ result' = "None"
    /\ UNCHANGED <<current_cmd, running, command_queue, pending, sock_open,
                   wpc, command, wsnap, wret, wheld, in_args, pilot_keys, whist,
                   pc, sc_pos, rep, pat, k, keys, tx, clast, close_returned>>

\* self.command_queue.put(entry) by the client (the queue of line 23)
QueuePut ==
    /\ pc = "idle"
    /\ Len(command_queue) < MaxQueue
    /\ \E entry \in QueueEntries :
          /\ command_queue' = Append(command_queue, entry)
          /\ pending' = IF entry.type = "bytes" THEN Append(pending, entry) ELSE pending
    /\ UNCHANGED <<current_cmd, keep_alive_active, running, sock_open,
                   wpc, command, wsnap, wret, wheld, in_args, pilot_keys, whist>>
    /\ UNCHANGED cvars

\* several self.command_queue.put(entry) in a row by the client
QueueBurst ==
    /\ pc = "idle"
    /\ Len(command_queue) < MaxBurst
    /\ \E entry \in BurstEntries :
          /\ command_queue' = Append(command_queue, entry)
          /\ pending' = IF entry.type = "bytes" THEN Append(pending, entry) ELSE pending
    /\ UNCHANGED <<current_cmd, keep_alive_active, running, sock_open,
                   wpc, command, wsnap, wret, wheld, in_args, pilot_keys, whist>>
    /\ UNCHANGED cvars

(***************************************************************************)
(* takeoff, lines 115-122                                                  *)
(***************************************************************************)
Takeoff == Call("takeoff118")

\* line 119: self.start_keep_alive()
Takeoff119 ==
    /\ Goto("takeoff119", "takeoff120")
    /\ keep_alive_active' = TRUE
    /\ UNCHANGED <<current_cmd, running, command_queue, pending, sock_open,
                   wpc, command, wsnap, wret, wheld, result>>

\* line 120: time.sleep(1)
Takeoff120 ==
    /\ Goto("takeoff120", "takeoff121")
    /\ UNCHANGED <<current_cmd, keep_alive_active, running, command_queue, pending, sock_open,
                   wpc, command, wsnap, wret, wheld, result>>

\* line 122: return True
Takeoff122 == Return("takeoff122", "True")

(***************************************************************************)
(* land, lines 124-131                                                     *)
(***************************************************************************)
Land == Call("land127")

\* line 128: time.sleep(2)
Land128 ==
    /\ Goto("land128", "land129")
    /\ UNCHANGED <<current_cmd, keep_alive_active, running, command_queue, pending, sock_open,
                   wpc, command, wsnap, wret, wheld, result>>

\* line 129: self.stop_keep_alive()
Land129 ==
    /\ Goto("land129", "land130")
    /\ keep_alive_active' = FALSE
    /\ UNCHANGED <<current_cmd, running, command_queue, pending, sock_open,
                   wpc, command, wsnap, wret, wheld, result>>

\* line 131: return True
Land131 == Return("land131", "True")

(***************************************************************************)
(* emergency_stop, lines 133-159                                           *)
(***************************************************************************)
EmergencyStop ==
    /\ Call("es148")
    /\ rep = 0 /\ pat = 1 /\ k = 0

\* lines 149-150: the pattern just set is sent; then the next pattern, the
\* next repetition, or line 153
Emergency149 ==
    /\ pc = "es149"
    /\ SendCurrent
    /\ tx' = tx + 1
    /\ IF pat < Len(Patterns)
       THEN /\ pat' = pat + 1
            /\ rep' = rep
            /\ pc' = "es148"
       ELSE IF rep + 1 < EmergencyRepeats
       THEN /\ pat' = 1
            /\ rep' = rep + 1
            /\ pc' = "es148"
       ELSE /\ pat' = 1
            /\ rep' = 0
            /\ pc' = "es153"
    /\ UNCHANGED <<current_cmd, keep_alive_active, running, command_queue, pending, sock_open,
                   wpc, command, wsnap, wret, wheld, in_args, pilot_keys, whist,
                   sc_pos, k, keys, result, close_returned>>

\* lines 154-156: the stop command, StopRepeats times
Emergency155 ==
    /\ pc = "es155"
    /\ SendCurrent
    /\ tx' = tx + 1
    /\ IF k + 1 < StopRepeats
       THEN /\ k' = k + 1
            /\ pc' = "es155"
       ELSE /\ k' = 0
            /\ pc' = "es158"
    /\ UNCHANGED <<current_cmd, keep_alive_active, running, command_queue, pending, sock_open,
                   wpc, command, wsnap, wret, wheld, in_args, pilot_keys, whist,
                   sc_pos, rep, pat, keys, result, close_returned>>

\* line 158: self.stop_keep_alive()
Emergency158 ==
    /\ Goto("es158", "es159")
    /\ keep_alive_active' = FALSE
    /\ UNCHANGED <<current_cmd, running, command_queue, pending, sock_open,
                   wpc, command, wsnap, wret, wheld, result>>

\* line 159: return True
Emergency159 == Return("es159", "True")

(***************************************************************************)
(* manual_control, lines 161-253                                           *)
(***************************************************************************)
\* A mutation of KeyStore: 'w' stops at 255, not at 0xC0.
KeyStoreWide(key, cmd) ==
    CASE key = "w" -> [cmd EXCEPT !.throttle = Min2(ByteMax, cmd.throttle + Step)]
      [] key = "s" -> [cmd EXCEPT !.throttle = Max2(Low, cmd.throttle - Step)]
      [] key = "a" -> [cmd EXCEPT !.yaw = Max2(Low, cmd.yaw - Step)]
      [] key = "d" -> [cmd EXCEPT !.yaw = Min2(High, cmd.yaw + Step)]
      [] key = "i" -> [cmd EXCEPT !.pitch = Min2(High, cmd.pitch + Step)]
      [] key = "k" -> [cmd EXCEPT !.pitch = Max2(Low, cmd.pitch - Step)]
      [] key = "j" -> [cmd EXCEPT !.roll = Max2(Low, cmd.roll - Step)]
      [] key = "l" -> [cmd EXCEPT !.roll = Min2(High, cmd.roll + Step)]

\* lines 212-233: the store a key makes
KeyStore(key, cmd) ==
    CASE key = "w" -> [cmd EXCEPT !.throttle = Min2(High, cmd.throttle + Step)]
      [] key = "s" -> [cmd EXCEPT !.throttle = Max2(Low, cmd.throttle - Step)]
      [] key = "a" -> [cmd EXCEPT !.yaw = Max2(Low, cmd.yaw - Step)]
      [] key = "d" -> [cmd EXCEPT !.yaw = Min2(High, cmd.yaw + Step)]
      [] key = "i" -> [cmd EXCEPT !.pitch = Min2(High, cmd.pitch + Step)]
      [] key = "k" -> [cmd EXCEPT !.pitch = Max2(Low, cmd.pitch - Step)]
      [] key = "j" -> [cmd EXCEPT !.roll = Max2(Low, cmd.roll - Step)]
      [] key = "l" -> [cmd EXCEPT !.roll = Min2(High, cmd.roll + Step)]

ManualControl ==
    /\ Call("mc182")
    /\ k = 0 /\ keys = 0

\* lines 183-185: the arm command, ArmRepeats times
Manual184 ==
    /\ pc = "mc184"
    /\ SendCurrent
    /\ IF k + 1 < ArmRepeats
       THEN /\ k' = k + 1
            /\ pc' = "mc184"
       ELSE /\ k' = 0
            /\ pc' = "mc188"
    /\ UNCHANGED <<current_cmd, keep_alive_active, running, command_queue, pending, sock_open,
                   wpc, command, wsnap, wret, wheld, in_args, pilot_keys, whist,
                   sc_pos, rep, pat, keys, result, tx, close_returned>>

\* line 189: self.start_keep_alive()
Manual189 ==
    /\ Goto("mc189", "mc198")
    /\ keep_alive_active' = TRUE
    /\ UNCHANGED <<current_cmd, running, command_queue, pending, sock_open,
                   wpc, command, wsnap, wret, wheld, result>>

\* line 198: the current state is sent, every turn of the loop
Manual198 ==
    /\ pc = "mc198"
    /\ SendCurrent
    /\ pc' = "mc206"
    /\ UNCHANGED <<current_cmd, keep_alive_active, running, command_queue, pending, sock_open,
                   wpc, command, wsnap, wret, wheld, in_args, pilot_keys, whist,
                   sc_pos, rep, pat, k, keys, result, tx, close_returned>>

\* lines 200-206 and 236-242: no key is waiting, or one that moves nothing
ManualNoKey ==
    /\ Goto("mc206", "mc198")
    /\ UNCHANGED <<current_cmd, keep_alive_active, running, command_queue, pending, sock_open,
                   wpc, command, wsnap, wret, wheld, result>>

\* lines 212-233: a key moves one axis by Step within [Low, High]
ManualKey ==
    /\ pc = "mc206"
    /\ keys < MaxKeys
    /\ \E key \in pilot_keys : current_cmd' = KeyStore(key, current_cmd)
    /\ wheld' = Held(current_cmd')
    /\ keys' = keys + 1
    /\ pc' = "mc198"
    /\ clast' = NoSend
    /\ UNCHANGED <<keep_alive_active, running, command_queue, pending, sock_open,
                   wpc, command, wsnap, wret, in_args, pilot_keys, whist,
                   sc_pos, rep, pat, k, result, tx, close_returned>>

\* lines 212-233, for a pilot who goes on pressing keys: any number of
\* presses, one a turn of the loop
ManualPress ==
    /\ pc = "mc206"
    /\ \E key \in pilot_keys : current_cmd' = KeyStore(key, current_cmd)
    /\ wheld' = Held(current_cmd')
    /\ pc' = "mc198"
    /\ clast' = NoSend
    /\ UNCHANGED <<keep_alive_active, running, command_queue, pending, sock_open,
                   wpc, command, wsnap, wret, in_args, pilot_keys, whist,
                   sc_pos, rep, pat, k, keys, result, tx, close_returned>>

\* lines 208-209 and 243-246: 'q' leaves the loop for the finally block
ManualQuit ==
    /\ Goto("mc206", "mc246")
    /\ UNCHANGED <<current_cmd, keep_alive_active, running, command_queue, pending, sock_open,
                   wpc, command, wsnap, wret, wheld, result>>

\* lines 247-249: the disarm command, StopRepeats times
Manual248 ==
    /\ pc = "mc248"
    /\ SendCurrent
    /\ IF k + 1 < StopRepeats
       THEN /\ k' = k + 1
            /\ pc' = "mc248"
       ELSE /\ k' = 0
            /\ pc' = "mc250"
    /\ UNCHANGED <<current_cmd, keep_alive_active, running, command_queue, pending, sock_open,
                   wpc, command, wsnap, wret, wheld, in_args, pilot_keys, whist,
                   sc_pos, rep, pat, keys, result, tx, close_returned>>

\* line 250: self.stop_keep_alive()
Manual250 ==
    /\ pc = "mc250"
    /\ pc' = "mc253"
    /\ keep_alive_active' = FALSE
    /\ keys' = 0
    /\ clast' = NoSend
    /\ UNCHANGED <<current_cmd, running, command_queue, pending, sock_open,
                   wpc, command, wsnap, wret, wheld, in_args, pilot_keys, whist,
                   sc_pos, rep, pat, k, result, tx, close_returned>>

\* line 253: manual_control returns None
Manual253 == Return("mc253", "None")

(***************************************************************************)
(* close, lines 255-262                                                    *)
(***************************************************************************)
\* line 258: self.running = False
Close ==
    /\ pc = "idle"
    /\ running' = FALSE
    /\ pc' = "close259"
    /\ result' = "unset"
    /\ UNCHANGED <<current_cmd, keep_alive_active, command_queue, pending, sock_open,
                   wpc, command, wsnap, wret, wheld, in_args, pilot_keys, whist,
                   sc_pos, rep, pat, k, keys, tx, clast, close_returned>>

\* lines 259-260: join(timeout=2.0) returns when the worker has ended or
\* when the two seconds are over, whichever comes first
Close259 ==
    /\ Goto("close259", "close261")
    /\ UNCHANGED <<current_cmd, keep_alive_active, running, command_queue, pending, sock_open,
                   wpc, command, wsnap, wret, wheld, result>>

\* A mutation of SockAfterClose: close() forgets the socket.
SockAfterCloseOpen == TRUE

\* The socket after self.sock.close(): not open.
SockAfterClose == FALSE

\* lines 261-262: self.sock.close(), and close() returns
Close261 ==
    /\ pc = "close261"
    /\ sock_open' = SockAfterClose
    /\ close_returned' = TRUE
    /\ pc' = "idle"
    /\ result' = "None"
    /\ UNCHANGED <<current_cmd, keep_alive_active, running, command_queue, pending,
                   wpc, command, wsnap, wret, wheld, in_args, pilot_keys, whist,
                   sc_pos, rep, pat, k, keys, tx, clast>>

ApiOps ==
    \/ ApiSetControls
    \/ ApiStartKeepAlive
    \/ ApiStopKeepAlive
    \/ QueuePut

TakeoffOps == Takeoff \/ Takeoff119 \/ Takeoff120 \/ Takeoff122

LandOps == Land \/ Land128 \/ Land129 \/ Land131

EmergencyOps ==
    EmergencyStop \/ Emergency149 \/ Emergency155 \/ Emergency158 \/ Emergency159

ManualOps ==
    \/ ManualControl \/ Manual184 \/ Manual189 \/ Manual198
    \/ ManualNoKey \/ ManualKey \/ ManualQuit \/ Manual248 \/ Manual250 \/ Manual253

CloseOps == Close \/ Close259 \/ Close261

(***************************************************************************)
(* Spec: the worker beside a client that sets controls, toggles keep-alive, *)
(* fills the queue, takes off, lands and closes.                           *)
(***************************************************************************)
Next ==
    \/ Worker
    \/ SetControlsStore
    \/ ApiOps
    \/ TakeoffOps
    \/ LandOps
    \/ CloseOps

Spec == Init /\ [][Next]_vars

(***************************************************************************)
(* SpecEmergency: the worker beside a client that starts keep-alive, fills *)
(* the queue, stops in emergency and closes.                               *)
(***************************************************************************)
InitFixedArgs == Init /\ in_args = [throttle |-> -5]

NextEmergency ==
    \/ Worker
    \/ SetControlsStore
    \/ ApiStartKeepAlive
    \/ QueuePut
    \/ EmergencyOps
    \/ CloseOps

SpecEmergency == InitFixedArgs /\ [][NextEmergency]_vars

(***************************************************************************)
(* SpecForeground: every operation of the foreground thread, which alone   *)
(* stores into current_cmd and keep_alive_active, in any order.            *)
(***************************************************************************)
NextForeground ==
    \/ SetControlsStore
    \/ ApiOps
    \/ TakeoffOps
    \/ LandOps
    \/ EmergencyOps
    \/ ManualOps
    \/ CloseOps

SpecForeground == Init /\ [][NextForeground]_vars

(***************************************************************************)
(* SpecQueue: the worker beside a client that puts entries on the queue    *)
(* several in a row, toggles keep-alive, sets a control and closes.        *)
(***************************************************************************)
NextQueue ==
    \/ Worker
    \/ SetControlsStore
    \/ ApiSetControls
    \/ ApiStartKeepAlive
    \/ ApiStopKeepAlive
    \/ QueueBurst
    \/ CloseOps

SpecQueue == InitFixedArgs /\ [][NextQueue]_vars

(***************************************************************************)
(* SpecFair: SpecQueue with a scheduler that never leaves the worker       *)
(* thread waiting for ever: its sleeps, its get and its sendto are all     *)
(* bounded in time, so whenever it has a step to take it takes one.        *)
(***************************************************************************)
SpecFair == SpecQueue /\ WF_vars(Worker)

(***************************************************************************)
(* SpecLive: the worker, fairly scheduled, beside a client that sets one   *)
(* or two controls, fills the queue, toggles keep-alive and closes.  The   *)
(* fields stay integers in 0..255, so the handler of lines 56-58 is never  *)
(* entered.                                                                *)
(***************************************************************************)
LiveArgs == {[throttle |-> -5], [throttle |-> -5, aux |-> 999]}

InitLive == Init /\ in_args \in LiveArgs

NextLive ==
    \/ WorkerSteps
    \/ SetControlsStore
    \/ ApiSetControls
    \/ ApiStartKeepAlive
    \/ ApiStopKeepAlive
    \/ QueueBurst
    \/ CloseOps

SpecLive == InitLive /\ [][NextLive]_vars /\ WF_vars(WorkerSteps)

(***************************************************************************)
(* SpecManual: a client that sets the throttle, flies by hand and closes;  *)
(* the pilot works two of the four axes and presses keys without end.      *)
(***************************************************************************)
PilotChoices ==
    { {"w", "s", "a", "d"}, {"w", "s", "i", "k"}, {"w", "s", "j", "l"},
      {"a", "d", "i", "k"}, {"a", "d", "j", "l"}, {"i", "k", "j", "l"} }

InitManual ==
    /\ InitCommon
    /\ in_args = [throttle |-> -5]
    /\ pilot_keys \in PilotChoices

NextManual ==
    \/ SetControlsStore
    \/ ApiSetControls
    \/ ManualControl \/ Manual184 \/ Manual189 \/ Manual198
    \/ ManualNoKey \/ ManualPress \/ ManualQuit \/ Manual248 \/ Manual250 \/ Manual253
    \/ CloseOps

SpecManual == InitManual /\ [][NextManual]_vars

(***************************************************************************)
(* Properties.                                                             *)
(***************************************************************************)

\* The worker has sent, in this iteration, the snapshot it loaded.
SnapshotTransmitted == wpc = "sleep" /\ wret = "sent" /\ wsnap # <<>>

\* The worker hands a datagram to the transport in this step.
WorkerTransmits == wpc = "send" /\ wpc' = "sleep" /\ wret' = "sent"

\* The foreground thread runs _send_current_command in this step.
ForegroundSends == pc \in SendSites /\ <<pc, rep, pat, k>>' # <<pc, rep, pat, k>>

\* The foreground thread hands a datagram to the transport in this step.
ForegroundTransmits == ForegroundSends /\ clast'.ret = "sent"

\* clamp(x, 0, 255), case by case.
Clamped(x) == IF x < 0 THEN 0 ELSE IF x > 255 THEN 255 ELSE x

\* decode of section 4.1: the five fields of a well-formed packet.
Decode(data) ==
    IF Len(data) = 7 /\ data[1] = 102 /\ data[7] = 153
    THEN <<data[2], data[3], data[4], data[5], data[6]>>
    ELSE <<>>

\* C1: every snapshot packet the dispatch loop transmits carries five values
\* that current_cmd held all together at one instant while the snapshot was
\* being loaded: no transmitted snapshot mixes fields of before and after an
\* update.
C1_SnapshotsAtomic == SnapshotTransmitted => wheld # {}

\* C2: once close() has returned, no step hands a datagram to the transport,
\* neither a step of the dispatch loop (which the join may have given up on)
\* nor a step of a later foreground call.
C2_NoSendAfterClose ==
    [][close_returned => ~(WorkerTransmits \/ ForegroundTransmits)]_vars

\* C2 witness: close() has returned, the dispatch loop is still about to
\* send, and a later emergency_stop has just tried to send.
C2_Witness ==
    /\ close_returned
    /\ wpc = "send"
    /\ pc = "es155"
    /\ clast.ret = "OSError"

C4_StoresClamp ==
    /\ [](pc = "set_controls" => ENABLED SetControlsStore)
    /\ [][(pc = "set_controls" /\ pc' = "idle") =>
            /\ result' = "None"
            /\ \A f \in DOMAIN in_args : current_cmd'[f] = Clamped(in_args[f])]_vars

\* C4 witness: set_controls(throttle=999) has returned with 255 stored.
C4_Witness ==
    /\ in_args = [throttle |-> 999]
    /\ pc = "idle"
    /\ result = "None"
    /\ current_cmd.throttle = 255

\* C5: when takeoff() is about to return, keep-alive is set, aux is 0x00 and
\* throttle, yaw, pitch and roll are 0x80; and it returns True, whatever
\* became of the transmissions.
C5_TakeoffResult ==
    /\ [](pc = "takeoff122" =>
            /\ keep_alive_active
            /\ current_cmd = [throttle |-> 128, yaw |-> 128, pitch |-> 128,
                              roll |-> 128, aux |-> 0])
    /\ [][(pc = "takeoff122" /\ pc' # pc) => (pc' = "idle" /\ result' = "True")]_vars

\* C5 witness: takeoff() is about to return while a transmission of the
\* dispatch loop has just failed.
C5_Witness == pc = "takeoff122" /\ wpc = "sleep" /\ wret = "OSError"

\* C6: when land() is about to return, keep-alive is clear, throttle is 0x80
\* and aux is 0x00; from the end of its first set_controls until keep-alive
\* is disabled throttle is 0x40 and aux is 0x02, and throttle and aux are
\* restored only with keep-alive disabled.
C6_LandResult ==
    /\ pc = "land131" =>
          ~keep_alive_active /\ current_cmd.throttle = 128 /\ current_cmd.aux = 0
    /\ pc \in {"land128", "land129"} =>
          current_cmd.throttle = 64 /\ current_cmd.aux = 2
    /\ pc = "land130" =>
          /\ ~keep_alive_active
          /\ sc_pos = 1 => (current_cmd.throttle = 64 /\ current_cmd.aux = 2)

\* C6 witness: land() is about to return, throttle restored, while the
\* dispatch loop has sent the landing snapshot loaded during the call.
C6_Witness ==
    /\ pc = "land131"
    /\ current_cmd.throttle = 128
    /\ SnapshotTransmitted
    /\ wsnap = <<64, 128, 128, 128, 2>>

\* C7: emergency_stop() has issued 12 sends when the pattern bursts are over
\* and 17 when it disables keep-alive; when it is about to return it has
\* issued at least 17, keep-alive is clear and throttle is 0x40.
C7_EmergencyResult ==
    /\ pc = "es153" => tx = 12
    /\ pc = "es158" => tx = 17
    /\ pc = "es159" => (tx >= 17 /\ ~keep_alive_active /\ current_cmd.throttle = 64)

\* C7 witness: emergency_stop() is about to return, 17 sends issued and
\* keep-alive clear, while the dispatch loop still holds a marker it did not
\* skip because keep-alive was set when it looked.
C7_Witness ==
    /\ pc = "es159"
    /\ tx = 17
    /\ ~keep_alive_active
    /\ wpc = "sleep"
    /\ command = KEEP_ALIVE

\* C8: a packet built from the control state is the 7 bytes 0x66, throttle,
\* yaw, pitch, roll, aux, 0x99 in that order, in the dispatch loop and in the
\* foreground thread alike, so decoding it gives back the five values it was
\* built from.
C8_PacketLayout ==
    /\ (wpc \in {"send", "sleep"} /\ wsnap # <<>>) =>
          /\ command.type = "bytes"
          /\ Len(command.data) = 7
          /\ command.data[1] = 102
          /\ command.data[7] = 153
          /\ Decode(command.data) = wsnap
    /\ clast # NoSend =>
          /\ clast.pkt = <<102, current_cmd.throttle, current_cmd.yaw, current_cmd.pitch,
                           current_cmd.roll, current_cmd.aux, 153>>
          /\ Decode(clast.pkt) = <<current_cmd.throttle, current_cmd.yaw,
                                   current_cmd.pitch, current_cmd.roll, current_cmd.aux>>

\* C8 witness: the dispatch loop has sent a snapshot whose throttle and aux
\* differ, and the foreground thread has just sent a packet too.
C8_Witness ==
    /\ SnapshotTransmitted
    /\ wsnap[1] # wsnap[5]
    /\ clast.ret = "sent"
    /\ current_cmd.aux = 16

\* C9: a KEEP_ALIVE marker that the dispatch loop popped and did not skip
\* makes a transmission: unless the network refused it, a datagram has
\* reached the transport for it.
C9_MarkerTransmitted ==
    (wpc = "sleep" /\ command = KEEP_ALIVE /\ wret # "OSError") => wret = "sent"

\* C10: the dispatch loop is in its terminal state only with the running flag
\* cleared; it leaves the loop only from the test of line 44 with the flag
\* clear, never from a failed send or from the exception handler; and a
\* failed send leaves current_cmd, the keep-alive flag and the queue as they
\* were.
C10_LoopSurvivesErrors ==
    /\ [](wpc = "done" => ~running)
    /\ [][(wpc # "done" /\ wpc' = "done") => (wpc = "while" /\ ~running)]_vars
    /\ [][(wpc = "send" /\ wpc' = "sleep" /\ wret' # "sent") =>
            UNCHANGED <<current_cmd, keep_alive_active, command_queue>>]_vars

\* C11: the worker calls sendto at most once in an iteration; it sends the
\* snapshot only in an iteration whose pop timed out empty, and an iteration
\* whose pop timed out empty and that reaches its sleep has sent the snapshot,
\* with keep-alive set or clear; an iteration that popped an entry sends no
\* snapshot.
C11_SnapshotIffEmptyPop ==
    /\ Len(wtx) <= 1
    /\ (wtx = <<"snapshot">>) => wpop = "empty"
    /\ (wpop = "empty" /\ wpc = "sleep") => wtx = <<"snapshot">>
    /\ wpop = "entry" => (wtx \in {<<>>, <<"direct">>} /\ wsnap = <<>>)

\* C11 witness: an iteration whose pop timed out empty has sent the snapshot
\* while keep-alive is clear and an entry waits in the queue.
C11_Witness ==
    /\ wpc = "sleep"
    /\ wpop = "empty"
    /\ wtx = <<"snapshot">>
    /\ ~keep_alive_active
    /\ command_queue # <<>>

\* C12: a KEEP_ALIVE marker that line 49 tests with the keep-alive flag clear
\* is discarded: the step goes back to the head of the loop without a call
\* of sendto in that iteration (no marker, no snapshot), the marker is dropped
\* and the queue is left as it was, and the loop goes on from its head.
C12_MarkerDiscarded ==
    /\ [][(wpc = "check49" /\ command = KEEP_ALIVE /\ ~keep_alive_active /\ wpc' # wpc) =>
            /\ wpc' = "while"
            /\ wpop' = "skipped"
            /\ command' = NoCommand
            /\ command_queue' = command_queue]_vars
    /\ [](wpop = "skipped" => (wpc = "while" /\ wtx = <<>> /\ wsnap = <<>> /\ wret = "none"))
    /\ []((wpc = "while" /\ running) => ENABLED WorkerWhile)
    /\ [][(wpop = "skipped" /\ running /\ wpc' # wpc) => wpc' = "get"]_vars

\* C12 witness: a marker has just been discarded with the flag clear; nothing
\* was sent, the queue is empty and the loop is at its head, still running.
C12_Witness ==
    /\ wpc = "while"
    /\ wpop = "skipped"
    /\ wtx = <<>>
    /\ ~keep_alive_active
    /\ command_queue = <<>>
    /\ running

\* C13: the raw packets the worker has handed to sendto are a prefix of the
\* raw packets put on the queue: each one it sends is, byte for byte, the
\* oldest one put and not yet sent, and is then sent no more, also when the
\* send failed; and the step that sends it leaves current_cmd as it was.
C13_RawPrefix ==
    /\ [](in_order)
    /\ [][(DirectRaw /\ wpc' = "sleep") =>
            /\ pending # <<>>
            /\ command = Head(pending)
            /\ pending' = Tail(pending)
            /\ current_cmd' = current_cmd]_vars

\* C13 witness: of two different packets put in a row the first has been sent
\* and refused by the network; the second is still waiting and the first is
\* not pending again.
C13_Witness ==
    /\ wpc = "sleep"
    /\ command = RawPacket
    /\ wret = "OSError"
    /\ in_order
    /\ pending = <<OtherPacket>>
    /\ command_queue = <<OtherPacket>>

\* C14: after close() has cleared the running flag the worker calls sendto at
\* most once more before it leaves the loop; and a send it has begun is
\* carried out: at line 66 the call is always possible and is the only way on.
C14_OneMoreSend ==
    /\ [](wafter <= 1)
    /\ [](wpc = "send" => ENABLED WorkerSend)
    /\ [][(wpc = "send" /\ wpc' # wpc) => (wpc' = "sleep" /\ Len(wtx') = Len(wtx) + 1)]_vars

\* C14 witness: the loop has ended, and since the running flag was cleared it
\* has called sendto once.
C14_Witness ==
    /\ ~running
    /\ wpc = "done"
    /\ wafter = 1

\* C15: in an iteration whose pop returned, with an entry or empty, when the
\* running flag was already clear, the worker hands no datagram to the
\* transport: it leaves the loop without transmitting for that pop.
C15_StopSeenAfterPop == wstop => wret # "sent"

\* C16 as it was stated: once the running flag is clear the worker leaves
\* the loop, and the socket is closed only with the worker out of the loop.
C16_ReleasedAfterExit ==
    /\ ~running ~> wpc = "done"
    /\ [](~sock_open => wpc = "done")

\* C16, amended: once the running flag is clear the worker leaves the loop,
\* from every point of its iteration; and the socket is closed only by
\* close(), after it has cleared the running flag and its join has returned,
\* with the worker out of the loop or not.
C16_LoopExits ==
    /\ ~running ~> wpc = "done"
    /\ [][(sock_open /\ ~sock_open') => (pc = "close261" /\ ~running)]_vars
    /\ [][(pc = "idle" /\ pc' = "close259") => ~running']_vars

\* C16 witness: close() has returned with the socket closed, and the worker
\* has left the loop without a call of sendto after the flag was cleared.
C16_Witness ==
    /\ close_returned
    /\ ~sock_open
    /\ wpc = "done"
    /\ wafter = 0

\* The values current_cmd takes under SpecLive.
LiveCmds ==
    {InitialCmd,
     [InitialCmd EXCEPT !.throttle = 0],
     [InitialCmd EXCEPT !.throttle = 0, !.aux = 255]}

\* The worker has called sendto, in this iteration, with the packet of cmd.
SnapshotAttempted(cmd) ==
    /\ wtx = <<"snapshot">>
    /\ command = Bytes(<<102, cmd.throttle, cmd.yaw, cmd.pitch, cmd.roll, cmd.aux, 153>>)

\* C17: if from some time on current_cmd keeps the value a caller gave it,
\* the running flag stays set and the queue stays empty, then the worker
\* again and again calls sendto with the packet of exactly that value,
\* whatever became of its earlier sends.
C17_StateReachesTransport ==
    \A cmd \in LiveCmds :
        <>[](current_cmd = cmd /\ running /\ command_queue = <<>>)
            => []<>SnapshotAttempted(cmd)

\* C17 witness: set_controls(throttle=-5, aux=999) has returned and the
\* worker has called sendto with the packet of the new state, a send the
\* network refused.
C17_Witness ==
    /\ pc = "idle"
    /\ result = "None"
    /\ current_cmd = [InitialCmd EXCEPT !.throttle = 0, !.aux = 255]
    /\ running
    /\ command_queue = <<>>
    /\ SnapshotAttempted(current_cmd)
    /\ wret = "OSError"

\* The aux byte of the n-th packet of emergency_stop: the four patterns in
\* turn, three times over, then the stop command five times.
EmergencyAux == <<4, 0, 8, 16, 4, 0, 8, 16, 4, 0, 8, 16, 0, 0, 0, 0, 0>>

\* C18: the n-th send of emergency_stop carries throttle 0x40, yaw, pitch and
\* roll 0x80 and the aux byte of its place: 0x04, 0x00, 0x08, 0x10 in turn
\* for the first 12 (each pattern 3 times, each packet the pattern just set),
\* 0x00 for the last 5; there are exactly 17 when line 158 is reached, and
\* within emergency_stop keep-alive is cleared by line 158 alone, after them.
C18_EmergencySequence ==
    /\ [][(pc \in {"es149", "es155"} /\ ForegroundSends) =>
            /\ tx' = tx + 1
            /\ tx' <= 17
            /\ clast'.pkt = <<102, 64, 128, 128, 128, EmergencyAux[tx'], 153>>
            /\ clast'.pkt = <<102, current_cmd.throttle, current_cmd.yaw,
                              current_cmd.pitch, current_cmd.roll, current_cmd.aux, 153>>]_vars
    /\ [](pc = "es153" => tx = 12)
    /\ [](pc = "es158" => tx = 17)
    /\ [][(pc \in {"es148", "es149", "es153", "es155", "es158"}
            /\ keep_alive_active /\ ~keep_alive_active') => (pc = "es158" /\ tx = 17)]_vars

\* C18 witness: emergency_stop, called with keep-alive set, has made its 17th
\* send, the stop command, and keep-alive is still set.
C18_Witness ==
    /\ pc = "es158"
    /\ tx = 17
    /\ keep_alive_active
    /\ clast = [pkt |-> <<102, 64, 128, 128, 128, 0, 153>>, ret |-> "sent"]

\* The positions of manual_control from the return of the arming
\* set_controls of line 182 to the return of manual_control.
ManualArmed ==
    {"mc184", "mc188", "mc189", "mc198", "mc206", "mc246", "mc248", "mc250", "mc253"}

\* C19: from the return of the arming set_controls until manual_control
\* returns, throttle, yaw, pitch and roll are each in [0x40,0xC0], after any
\* number of presses of w/s, a/d, i/k, j/l.
C19_ManualRange ==
    pc \in ManualArmed =>
        \A f \in {"throttle", "yaw", "pitch", "roll"} : current_cmd[f] \in 64..192

\* C19 witness: after a throttle of 0 before the call, the pilot has held 'w'
\* until the throttle stopped at 0xC0 and 'a' until the yaw stopped at 0x40.
C19_Witness ==
    /\ pc = "mc198"
    /\ in_args = [throttle |-> -5]
    /\ current_cmd.throttle = 192
    /\ current_cmd.yaw = 64

\* A step of set_controls, at any of its call sites.
SetControlsStep ==
    pc \in SetSites /\ <<pc, sc_pos, current_cmd>>' # <<pc, sc_pos, current_cmd>>

\* A step of the worker thread.
WorkerStep == <<wpc, command, wsnap, wret>>' # <<wpc, command, wsnap, wret>>

\* The positions whose step is start_keep_alive or stop_keep_alive: the two
\* operations called by the client, and lines 119, 129, 158, 189 and 250.
KeepAliveSites == {"idle", "takeoff119", "land129", "es158", "mc189", "mc250"}

\* C20: a step of set_controls leaves every field whose argument is omitted,
\* the keep-alive flag, the running flag and the queue as they were; the
\* keep-alive flag changes only in a step that is start_keep_alive or
\* stop_keep_alive; and no step of the worker changes current_cmd or the
\* keep-alive flag.
C20_FrameEffects ==
    /\ [][SetControlsStep =>
            /\ \A f \in FieldNames \ DOMAIN CallArgs : current_cmd'[f] = current_cmd[f]
            /\ UNCHANGED <<keep_alive_active, running, command_queue>>]_vars
    /\ [][keep_alive_active' # keep_alive_active =>
            /\ pc \in KeepAliveSites
            /\ ~WorkerStep
            /\ pc = "idle" => (pc' = "idle" /\ result' = "None")]_vars
    /\ [][WorkerStep => UNCHANGED <<current_cmd, keep_alive_active>>]_vars

\* C20 witness: set_controls(aux=999) has returned with keep-alive set and an
\* entry in the queue: aux is 255 and the other four fields, the two flags
\* and the queue are as before.
C20_Witness ==
    /\ in_args = [aux |-> 999]
    /\ pc = "idle"
    /\ result = "None"
    /\ current_cmd = [InitialCmd EXCEPT !.aux = 255]
    /\ keep_alive_active
    /\ running
    /\ command_queue # <<>>

\* C10 witness: a send has failed with an entry left in the queue, and the
\* loop is alive with the running flag set.
C10_Witness ==
    /\ wpc = "sleep"
    /\ wret = "OSError"
    /\ running
    /\ command_queue # <<>>
====
